---- MODULE Spec2Model ----
(***************************************************************************)
(* Model of the frontend data extraction run                               *)
(* (cypress/e2e/data_extraction.cy.js), the custom commands                *)
(* loginByGoogleApi and extractCompanyFields, and the configuration patch  *)
(* task updateConfigWithMemoPath (cypress.config.js).                      *)
(*                                                                         *)
(* Text is a sequence of one-character strings, so that trim() and the     *)
(* jQuery :contains() substring test are computed and not assumed.         *)
(***************************************************************************)
EXTENDS Integers, Sequences, FiniteSets, TLC

(* ------------------------------ bounds --------------------------------- *)

\* Largest number of cards in a generated page.
MaxContainers == 2

\* Number of times the extraction spec is run.
MaxRuns == 2

\* Number of times a task (the configuration patch, the file move) is
\* invoked.
MaxPatches == 1

(* ------------------------------- text ---------------------------------- *)

\* The value JavaScript gives a property that is absent.
Undefined == "<undefined>"

\* `${v}` in a template literal.
TemplateStr(v) == IF v = Undefined THEN "undefined" ELSE v

IsSpace(c) == c = " "

RECURSIVE TrimLeft(_)
TrimLeft(s) ==
    IF s = <<>> THEN <<>>
    ELSE IF IsSpace(Head(s)) THEN TrimLeft(Tail(s)) ELSE s

RECURSIVE TrimRight(_)
TrimRight(s) ==
    IF s = <<>> THEN <<>>
    ELSE IF IsSpace(s[Len(s)]) THEN TrimRight(SubSeq(s, 1, Len(s) - 1)) ELSE s

\* String.prototype.trim
Trim(s) == TrimRight(TrimLeft(s))

\* jQuery :contains("sub") on the text of one element: substring, case-sensitive.
Contains(s, sub) ==
    \E i \in 0..(Len(s) - Len(sub)) : SubSeq(s, i + 1, i + Len(sub)) = sub

(* ------------------------------ schema --------------------------------- *)

\* The fields array of extractCompanyFields, in its order.
fields ==
    << [label |-> <<"C","o","m","p","a","n","y"," ","n","a","m","e">>,
        key |-> "company_name"],
       [label |-> <<"I","n","d","u","s","t","r","y">>,
        key |-> "industry"],
       [label |-> <<"L","o","c","a","t","i","o","n">>,
        key |-> "location"],
       [label |-> <<"F","o","u","n","d","e","r","s">>,
        key |-> "founders"],
       [label |-> <<"F","o","u","n","d","e","r"," ","E","m","a","i","l">>,
        key |-> "founder_email"],
       [label |-> <<"Y","e","a","r"," ","F","o","u","n","d","e","d">>,
        key |-> "year_founded"],
       [label |-> <<"F","u","n","d","i","n","g"," ","S","t","a","g","e">>,
        key |-> "funding_stage"],
       [label |-> <<"L","a","t","e","s","t"," ","V","a","l","u","a","t","i","o","n">>,
        key |-> "latest_valuation"],
       [label |-> <<"F","u","n","d"," ","R","a","i","s","e"," ","T","a","r","g","e","t">>,
        key |-> "fund_raise_target"],
       [label |-> <<"A","m","o","u","n","t"," ","R","a","i","s","e","d">>,
        key |-> "amount_raised"],
       [label |-> <<"R","e","v","e","n","u","e">>,
        key |-> "revenue"],
       [label |-> <<"L","i","s","t"," ","o","f"," ","i","n","v","e","s","t","o","r","s">>,
        key |-> "list_of_investors"],
       [label |-> <<"L","e","a","d"," ","I","n","v","e","s","t","o","r">>,
        key |-> "lead_investor"],
       [label |-> <<"V","e","r","t","i","c","a","l","s">>,
        key |-> "verticals"],
       [label |-> <<"K","e","y","w","o","r","d","s">>,
        key |-> "keywords"] >>

FieldIdx == 1..Len(fields)

SchemaKeys == {fields[i].key : i \in FieldIdx}

MetadataKey == "_extraction_metadata"

\* key.startsWith('_') over the keys a record can hold.
StartsWithUnderscore(k) == k = MetadataKey

(* -------------------------------- DOM ---------------------------------- *)
\* A page body is a sequence of top-level blocks in document order; a block
\* is a div (rounded or not) holding a sequence of elements.  An element is
\* [tag, classes, text].

HasClass(e, c) == c \in e.classes

\* [class*="text-content-secondary"]:contains("label")
MatchesLabel(e, label) ==
    HasClass(e, "text-content-secondary") /\ Contains(e.text, label)

\* div.mt-1.line-clamp-2.text-sm.font-medium.text-content-primary
StructuralSelector(e) ==
    /\ e.tag = "div"
    /\ {"mt-1", "line-clamp-2", "text-sm", "font-medium", "text-content-primary"}
          \subseteq e.classes

\* span.text-sm.font-medium.text-content-primary
SpanSelector(e) ==
    /\ e.tag = "span"
    /\ {"text-sm", "font-medium", "text-content-primary"} \subseteq e.classes

\* [class*="font-medium"][class*="text-content-primary"]
BroadSelector(e) ==
    HasClass(e, "font-medium") /\ HasClass(e, "text-content-primary")

\* The three selectors joined with ', ': one selector list, which matches an
\* element when any member matches it.
ValueSelector(e) == StructuralSelector(e) \/ SpanSelector(e) \/ BroadSelector(e)

\* Document positions <<block, element>> of the label elements: $label.
LabelPositions(dom, label) ==
    {p \in UNION {{<<c, i>> : i \in 1..Len(dom[c].els)} : c \in 1..Len(dom)} :
        MatchesLabel(dom[p[1]].els[p[2]], label)}

\* closest() applied to the first matched label alone.
ClosestRoundedOfFirst(dom, labelPos) ==
    IF labelPos = {} THEN {}
    ELSE LET p == CHOOSE p \in labelPos :
                    \A q \in labelPos :
                        p[1] < q[1] \/ (p[1] = q[1] /\ p[2] <= q[2])
         IN  {c \in {p[1]} : dom[c].rounded}

\* $label.closest('div[class*="rounded"]'): the nearest rounded ancestor of
\* every matched label, without duplicates.
ClosestRounded(dom, labelPos) ==
    {c \in {p[1] : p \in labelPos} : dom[c].rounded}

\* $container.find(<selector list>): every descendant of any of the
\* containers that matches the list, in document order.
FindValues(dom, containers) ==
    {p \in UNION {{<<c, i>> : i \in 1..Len(dom[c].els)} : c \in containers} :
        ValueSelector(dom[p[1]].els[p[2]])}

DocBefore(p, q) == p[1] < q[1] \/ (p[1] = q[1] /\ p[2] <= q[2])

\* .first(): the first element of the set in document order.
First(positions) == CHOOSE p \in positions : \A q \in positions : DocBefore(p, q)

\* One callback of the fields.forEach: the outcome for one label.
ResolveField(dom, label) ==
    LET labelPos == LabelPositions(dom, label)
        values == FindValues(dom, ClosestRounded(dom, labelPos))
    IN  IF labelPos = {} THEN [status |-> "nolabel", value |-> <<>>]
        ELSE IF values = {} THEN [status |-> "novalue", value |-> <<>>]
        ELSE LET p == First(values)
             IN  [status |-> "found", value |-> Trim(dom[p[1]].els[p[2]].text)]

\* A resolver that gives up on the rest of the schema once a field is missed.
FieldStepStopsAfterMiss(rec, dom, i) ==
    LET r == ResolveField(dom, fields[i].label)
    IN  IF i > 1 /\ rec[fields[i - 1].key] = <<>> THEN rec
        ELSE IF r.status = "found" THEN (fields[i].key :> r.value) @@ rec ELSE rec

\* verifyRecords[key] = value when the value element exists; nothing otherwise.
FieldStep(rec, dom, i) ==
    LET r == ResolveField(dom, fields[i].label)
    IN  IF r.status = "found" THEN (fields[i].key :> r.value) @@ rec ELSE rec

(* ---------------------------- page catalogue --------------------------- *)

TxtA == <<"a">>
TxtB == <<"b">>
TxtPadded == <<" ", "a", " ", "b", " ">>
TxtBlank == <<" ">>

LabelEl(i) ==
    [tag |-> "p", classes |-> {"text-xs", "text-content-secondary"},
     text |-> fields[i].label]

StructuralEl(t) ==
    [tag |-> "div",
     classes |-> {"mt-1", "line-clamp-2", "text-sm", "font-medium",
                  "text-content-primary"},
     text |-> t]

SpanEl(t) ==
    [tag |-> "span",
     classes |-> {"text-sm", "font-medium", "text-content-primary"}, text |-> t]

BroadEl(t) ==
    [tag |-> "p", classes |-> {"font-medium", "text-content-primary"}, text |-> t]

PlainEl(t) == [tag |-> "p", classes |-> {"text-sm"}, text |-> t]

Card(els) == [rounded |-> TRUE, els |-> els]

PlainDiv(els) == [rounded |-> FALSE, els |-> els]

\* The blocks generated pages are built from.  Fields 2 (Industry) and
\* 3 (Location) stand for any field of the schema.
ContainerCatalogue ==
    { Card(<<LabelEl(2), BroadEl(TxtB), StructuralEl(TxtA)>>),
      Card(<<LabelEl(3), PlainEl(TxtA)>>),
      Card(<<LabelEl(3), SpanEl(TxtBlank)>>),
      Card(<<LabelEl(3), LabelEl(4), SpanEl(TxtPadded)>>),
      PlainDiv(<<LabelEl(2), StructuralEl(TxtB)>>) }

GeneratedPages == UNION {[1..n -> ContainerCatalogue] : n \in 0..MaxContainers}

\* The page that renders exactly the fields of S, each in a card of its own.
PageOf(S) ==
    [i \in FieldIdx |->
        IF i \in S THEN Card(<<LabelEl(i), StructuralEl(TxtA)>>)
        ELSE Card(<<PlainEl(TxtB)>>)]

\* Every field rendered.
FullPage == PageOf(FieldIdx)

OmittedFields == {5, 8, 9, 12, 13}

\* Ten fields rendered, five omitted.
TenPage == PageOf(FieldIdx \ OmittedFields)

\* The fields whose presence varies freely in the combination pages.
ComboFields == {1, 4, 5, 11, 14, 15}

ComboPages == {PageOf(S) : S \in SUBSET ComboFields}

\* What the browser shows when the detail view is not reached.
LoginPage == <<PlainDiv(<<PlainEl(TxtB)>>)>>

Url1 == "/company-detail/1"
Url2 == "/company-detail/2"
LoginUrl == "/login"

Urls == {Url1, Url2}

\* url.includes('company-detail') over the addresses of the model.
IncludesCompanyDetail(u) == u \in {Url1, Url2}

Served(u, dom) == [status |-> "ok", finalUrl |-> u, dom |-> dom]

Redirected == [status |-> "ok", finalUrl |-> LoginUrl, dom |-> LoginPage]

LoadError == [status |-> "error", finalUrl |-> LoginUrl, dom |-> <<>>]

\* Frontends whose first detail page is any generated page.
DomSites ==
    {[u \in Urls |-> IF u = Url1 THEN Served(u, d) ELSE Served(u, TenPage)] :
        d \in GeneratedPages \cup ComboPages}

\* Frontends that serve, redirect or fail each address.
RunSites ==
    {[u \in Urls |-> IF u = Url1 THEN a ELSE b] :
        a \in {Served(Url1, FullPage), Redirected, LoadError},
        b \in {Served(Url2, TenPage), Redirected}}

(* ------------------------- configuration stores ------------------------ *)

Company(id, name, url) ==
    [id |-> id, name |-> name, frontend_url |-> url, ai_generated_memo |-> Undefined]

CompanyA == Company("c1", "Algorithmics", Url1)
CompanyB == Company("c2", "Brightband", Url2)
CompanyNoId == Company(Undefined, "PepperMoney", Url1)
CompanyNoName == Company("c4", Undefined, Url2)
CompanyNoUrl == Company("c5", "PragmaClin", Undefined)
CompanyATwin == Company("c6", "Algorithmics", Url2)

ConfigCatalogue ==
    { <<>>, <<CompanyA>>, <<CompanyA, CompanyB>>, <<CompanyB, CompanyA>>,
      <<CompanyNoId, CompanyB>>, <<CompanyA, CompanyNoName>>,
      <<CompanyA, CompanyNoUrl, CompanyB>>, <<CompanyA, CompanyATwin>> }

\* A configuration file on disk: whether it exists, whether its text is
\* JSON, whether the JSON has a companies array, and whether it can be
\* written.
Store(cs) ==
    [exists |-> TRUE, parses |-> TRUE, hasCompanies |-> TRUE, companies |-> cs,
     writable |-> TRUE]

MissingStore == [Store(<<>>) EXCEPT !.exists = FALSE]
MalformedStore == [Store(<<>>) EXCEPT !.parses = FALSE]
NoCompaniesStore == [Store(<<>>) EXCEPT !.hasCompanies = FALSE]
ReadOnlyStore(cs) == [Store(cs) EXCEPT !.writable = FALSE]

FixturePath == "cypress/fixtures/config.json"
RootPath == "config.json"

configPaths == <<FixturePath, RootPath>>

PatchNames == {"Algorithmics", "Nobody"}

MemoPath(companyName) == "data/ai_outputs/" \o companyName \o "_Investment_Memo.pdf"

FailEntry(path, error) ==
    [path |-> path, success |-> FALSE, error |-> error, message |-> Undefined,
     memoPath |-> Undefined]

\* The body of the try block for one location.  threw = TRUE stands for an
\* exception raised inside it (JSON.parse, a property of undefined,
\* writeFileSync); pushed holds what the body pushed onto results.
TryUpdate(store, path, companyName) ==
    LET hit == {i \in 1..Len(store.companies) : store.companies[i].name = companyName}
        i0 == CHOOSE i \in hit : \A j \in hit : i <= j
    IN  IF ~store.exists
        THEN [threw |-> FALSE, store |-> store,
              pushed |-> <<FailEntry(path, "File does not exist: " \o path)>>]
        ELSE IF ~store.parses \/ ~store.hasCompanies
        THEN [threw |-> TRUE, store |-> store, pushed |-> <<>>]
        ELSE IF hit = {}
        THEN [threw |-> FALSE, store |-> store,
              pushed |-> <<FailEntry(path, "Company " \o companyName
                                              \o " not found in " \o path)>>]
        ELSE IF ~store.writable
        THEN [threw |-> TRUE, store |-> store, pushed |-> <<>>]
        ELSE [threw |-> FALSE,
              store |-> [store EXCEPT
                           !.companies[i0].ai_generated_memo = MemoPath(companyName)],
              pushed |-> <<[path |-> path, success |-> TRUE, error |-> Undefined,
                            message |-> "Updated " \o path \o " with memo path for "
                                           \o companyName,
                            memoPath |-> MemoPath(companyName)]>>]

\* The iteration with a catch that pushes nothing.
PatchLocationSwallows(store, path, companyName) ==
    LET t == TryUpdate(store, path, companyName)
    IN  IF t.threw THEN [store |-> store, pushed |-> t.pushed]
        ELSE [store |-> t.store, pushed |-> t.pushed]

\* One iteration of configPaths.forEach: the try block and its catch, which
\* pushes an entry of its own.
PatchLocation(store, path, companyName) ==
    LET t == TryUpdate(store, path, companyName)
    IN  IF t.threw
        THEN [store |-> store,
              pushed |-> t.pushed \o
                  <<FailEntry(path, "Error updating " \o path \o ": exception")>>]
        ELSE [store |-> t.store, pushed |-> t.pushed]

RECURSIVE Flatten(_)
\* The results array after the forEach: what each iteration pushed, in order.
Flatten(seqs) == IF seqs = <<>> THEN <<>> ELSE Head(seqs) \o Flatten(Tail(seqs))

\* results.filter(r => r.success).length
SuccessCount(results) == Cardinality({i \in 1..Len(results) : results[i].success})

\* The object updateConfigWithMemoPath returns.
PatchReport(results, companyName) ==
    [success |-> SuccessCount(results) > 0,
     totalFiles |-> Len(configPaths),
     successCount |-> SuccessCount(results),
     results |-> results,
     summary |-> <<"Updated ", SuccessCount(results), "/", Len(configPaths),
                   " config files for ", companyName>>]

(* -------------------------- downloaded files --------------------------- *)
\* A file name is text; a folder is [exists, files], files being a set of
\* [name, mtime, content] with distinct names.

\* String.prototype.toLowerCase over the letters of the model.
LowerChar(c) ==
    IF c = "P" THEN "p" ELSE IF c = "D" THEN "d" ELSE IF c = "F" THEN "f" ELSE c

ToLowerCase(s) == [i \in 1..Len(s) |-> LowerChar(s[i])]

\* String.prototype.endsWith
EndsWith(s, suffix) ==
    /\ Len(suffix) <= Len(s)
    /\ SubSeq(s, Len(s) - Len(suffix) + 1, Len(s)) = suffix

\* file.toLowerCase().endsWith('.pdf')
IsPdfName(name) == EndsWith(ToLowerCase(name), <<".", "p", "d", "f">>)

\* The comparator (a, b) => a.mtime - b.mtime: the oldest file first.
SortsBeforeOldestFirst(a, b) == a.mtime < b.mtime

\* The comparator (a, b) => b.mtime - a.mtime puts a before b when a is the
\* more recently modified.
SortsBefore(a, b) == a.mtime > b.mtime

RECURSIVE InsertSorted(_, _)
\* Array.prototype.sort is stable: x goes behind every element that does
\* not have to come after it.
InsertSorted(x, sorted) ==
    IF sorted = <<>> THEN <<x>>
    ELSE IF SortsBefore(x, Head(sorted)) THEN <<x>> \o sorted
    ELSE <<Head(sorted)>> \o InsertSorted(x, Tail(sorted))

RECURSIVE SortFiles(_)
SortFiles(seq) ==
    IF seq = <<>> THEN <<>>
    ELSE InsertSorted(seq[Len(seq)], SortFiles(SubSeq(seq, 1, Len(seq) - 1)))

\* The orders in which fs.readdirSync may list a folder.
Listings(files) ==
    {l \in [1..Cardinality(files) -> files] :
        \A i, j \in 1..Cardinality(files) : i # j => l[i] # l[j]}

TargetFolder == "data/ai_outputs"

MemoFileName(companyName) == companyName \o "_Investment_Memo.pdf"

MoveFailure(error) ==
    [success |-> FALSE, error |-> error, filename |-> Undefined,
     fullPath |-> Undefined]

\* The body of the try block of moveDownloadedFile for one listing of the
\* downloads folder.  threw = TRUE stands for the exception readdirSync
\* raises when the folder does not exist.
TryMove(folder, target, listing, companyName) ==
    LET made == [target EXCEPT !.exists = TRUE]
        sorted == SortFiles(SelectSeq(listing, LAMBDA f : IsPdfName(f.name)))
        mostRecentFile == sorted[1]
        targetFileName == MemoFileName(companyName)
    IN  IF ~folder.exists
        THEN [threw |-> TRUE, folder |-> folder, target |-> made,
              result |-> MoveFailure(Undefined)]
        ELSE IF Len(sorted) = 0
        THEN [threw |-> FALSE, folder |-> folder, target |-> made,
              result |-> MoveFailure("No PDF file found in downloads")]
        ELSE [threw |-> FALSE,
              folder |-> [folder EXCEPT !.files = @ \ {mostRecentFile}],
              target |-> [made EXCEPT !.files =
                            {f \in @ : f.name # targetFileName} \cup
                            {[mostRecentFile EXCEPT !.name = targetFileName]}],
              result |-> [success |-> TRUE, error |-> Undefined,
                          filename |-> targetFileName,
                          fullPath |-> TargetFolder \o "/" \o targetFileName]]

\* moveDownloadedFile({ companyName, targetFolder }): the try block and its
\* catch.
MoveDownloaded(folder, target, listing, companyName) ==
    LET t == TryMove(folder, target, listing, companyName)
    IN  IF t.threw
        THEN [folder |-> t.folder, target |-> t.target,
              result |-> MoveFailure("exception")]
        ELSE [folder |-> t.folder, target |-> t.target, result |-> t.result]

PdfA == <<"a", ".", "p", "d", "f">>
PdfB == <<"b", ".", "P", "D", "F">>
TextC == <<"c", ".", "t", "x", "t">>

DownloadNames == {PdfA, PdfB, TextC}

MTimes == {1, 2}

File(name, mtime) == [name |-> name, mtime |-> mtime, content |-> name]

\* Every downloads folder over the names, and the folder that is absent.
FolderCatalogue ==
    {[exists |-> FALSE, files |-> {}]} \cup
    {[exists |-> TRUE, files |-> {File(n, t[n]) : n \in present}] :
        present \in SUBSET DownloadNames, t \in [DownloadNames -> MTimes]}

NoFolder == [exists |-> FALSE, files |-> {}]

\* The target folder holding a memo written earlier.
OldMemoFolder ==
    [exists |-> TRUE,
     files |-> {[name |-> MemoFileName("Algorithmics"), mtime |-> 1,
                 content |-> <<"o", "l", "d">>]}]

(* ------------------------- verification record ------------------------- *)

\* The literal with the last schema key left out.
InitRecordWithoutKeywords(company, at) ==
    [k \in SchemaKeys \ {"keywords"} |-> <<>>] @@
    (MetadataKey :>
        [extracted_at |-> at,
         company_id |-> company.id,
         frontend_url |-> company.frontend_url,
         extraction_type |-> "ai_output_verification",
         total_fields |-> 15])

\* The literal with the clock read into a second metadata field.
InitRecordStampsType(company, at) ==
    [k \in SchemaKeys |-> <<>>] @@
    (MetadataKey :>
        [extracted_at |-> at,
         company_id |-> company.id,
         frontend_url |-> company.frontend_url,
         extraction_type |-> at,
         total_fields |-> 15])

\* The verifyRecords literal of one iteration.
InitRecord(company, at) ==
    [k \in SchemaKeys |-> <<>>] @@
    (MetadataKey :>
        [extracted_at |-> at,
         company_id |-> company.id,
         frontend_url |-> company.frontend_url,
         extraction_type |-> "ai_output_verification",
         total_fields |-> 15])

Filename(company) ==
    "data/extracted/" \o TemplateStr(company.name) \o "_frontend_data.json"

\* The filter without its test of the value: every key that does not start
\* with '_' is counted.
FieldsWithDataCountsKeys(rec) ==
    Cardinality({k \in DOMAIN rec : ~StartsWithUnderscore(k)})

\* The filter of the save step: keys that do not start with '_' and hold a
\* truthy value whose trimmed text is not empty.
FieldsWithData(rec) ==
    Cardinality({k \in DOMAIN rec :
        /\ ~StartsWithUnderscore(k)
        /\ rec[k] # <<>>
        /\ Trim(rec[k]) # <<>>})

\* The two metadata assignments of the save step.
WithSummary(rec) ==
    LET n == FieldsWithData(rec)
    IN  [rec EXCEPT ![MetadataKey] =
            ("fields_extracted" :> n) @@ ("extraction_success" :> (n > 0)) @@ @]

MaybeUndefined == {"company_id", "frontend_url"}

\* JSON.stringify(verifyRecords, null, 2): a property whose value is
\* undefined is left out of the text.
Stringify(rec) ==
    LET meta == rec[MetadataKey]
        kept == {k \in DOMAIN meta : k \notin MaybeUndefined \/ meta[k] # Undefined}
    IN  [rec EXCEPT ![MetadataKey] = [k \in kept |-> meta[k]]]

(* ------------------------------- state --------------------------------- *)

VARIABLES
    stores,         \* the configuration file at each of configPaths
    site,           \* what the frontend answers for each address
    fs,             \* the files under data/extracted: name -> text
    report,         \* what the last updateConfigWithMemoPath call returned
    patches,        \* number of updateConfigWithMemoPath calls so far
    runNo,          \* number of runs of the extraction spec started so far
    now,            \* the clock read by new Date()
    pc,             \* position of the current run
    failure,        \* why the current run failed, "none" otherwise
    loginOutcome,   \* how the login request of beforeEach ended
    companies,      \* config.companies as loaded by cy.fixture
    idx,            \* index of the company the each() callback is at
    verifyRecords,  \* the record of the current iteration
    currentUrl,     \* cy.url()
    body,           \* the body of the page currently shown
    fieldIdx,       \* the next field of extractCompanyFields
    attempted,      \* keys of the fields resolved so far in this iteration
    pending,        \* the file name and text handed to cy.writeFile
    visited,        \* addresses given to cy.visit in this run
    writeLog,       \* the files written in this run, in order
    prevLog,        \* the files written in the previous run, in order
    downloads,      \* the downloads folder
    targetDir,      \* the folder the downloaded memo is moved to
    moveResult,     \* what the last moveDownloadedFile call returned
    moves           \* number of moveDownloadedFile calls so far

vars ==
    <<stores, site, fs, report, patches, runNo, now, pc, failure, loginOutcome,
      companies, idx, verifyRecords, currentUrl, body, fieldIdx, attempted,
      pending, visited, writeLog, prevLog, downloads, targetDir, moveResult,
      moves>>

runVars ==
    <<failure, loginOutcome, companies, idx, verifyRecords, currentUrl, body,
      fieldIdx, attempted, pending, visited, writeLog>>

moveVars == <<downloads, targetDir, moveResult, moves>>

envVars == <<stores, site, report, patches, moveVars>>

NoTestRunning == pc \in {"idle", "done", "failed"}

InitCommon ==
    /\ fs = <<>>
    /\ report = <<>>
    /\ patches = 0
    /\ runNo = 0
    /\ now = 0
    /\ pc = "idle"
    /\ failure = "none"
    /\ loginOutcome = "none"
    /\ companies = <<>>
    /\ idx = 0
    /\ verifyRecords = <<>>
    /\ currentUrl = ""
    /\ body = <<>>
    /\ fieldIdx = 0
    /\ attempted = <<>>
    /\ pending = <<>>
    /\ visited = <<>>
    /\ writeLog = <<>>
    /\ prevLog = <<>>
    /\ moveResult = <<>>
    /\ moves = 0

\* One company, and any generated page behind its address.
InitDom ==
    /\ stores = [p \in {FixturePath, RootPath} |->
                    IF p = FixturePath THEN Store(<<CompanyA>>) ELSE MissingStore]
    /\ site \in DomSites
    /\ downloads = NoFolder
    /\ targetDir = NoFolder

\* Any configuration of the catalogue, healthy or not, and a frontend that
\* serves, redirects or fails each address.
InitRun ==
    /\ \E fixture \in {Store(cs) : cs \in ConfigCatalogue}
                        \cup {MissingStore, MalformedStore, NoCompaniesStore} :
            stores = [p \in {FixturePath, RootPath} |->
                        IF p = FixturePath THEN fixture ELSE MissingStore]
    /\ site \in RunSites
    /\ downloads = [exists |-> TRUE, files |-> {File(PdfA, 1)}]
    /\ targetDir = NoFolder

\* The two configuration copies in any state of health.
InitStores ==
    /\ \E fixture \in {Store(<<CompanyA, CompanyB>>), ReadOnlyStore(<<CompanyA>>),
                        MalformedStore, MissingStore},
          root \in {Store(<<CompanyB, CompanyA>>), Store(<<CompanyB>>),
                    ReadOnlyStore(<<CompanyA>>), NoCompaniesStore} :
            stores = [p \in {FixturePath, RootPath} |->
                        IF p = FixturePath THEN fixture ELSE root]
    /\ site = [u \in Urls |-> IF u = Url1 THEN Served(u, FullPage)
                                ELSE Served(u, TenPage)]
    /\ downloads = NoFolder
    /\ targetDir = OldMemoFolder

\* Any downloads folder of the catalogue, and a target folder that is
\* absent or holds an earlier memo.
InitDownloads ==
    /\ stores = [p \in {FixturePath, RootPath} |->
                    IF p = FixturePath THEN Store(<<>>) ELSE MissingStore]
    /\ site = [u \in Urls |-> Served(u, TenPage)]
    /\ downloads \in FolderCatalogue
    /\ targetDir \in {NoFolder, OldMemoFolder}

Init == InitCommon /\ (InitDom \/ InitRun \/ InitStores \/ InitDownloads)

(* ------------------------------ the run -------------------------------- *)

Fail(why) == pc' = "failed" /\ failure' = why

\* `npx cypress run --spec cypress/e2e/data_extraction.cy.js`
StartRun ==
    /\ NoTestRunning
    /\ runNo < MaxRuns
    /\ runNo' = runNo + 1
    /\ pc' = "session"
    /\ prevLog' = writeLog
    /\ failure' = "none"
    /\ loginOutcome' = "none"
    /\ companies' = <<>>
    /\ idx' = 0
    /\ verifyRecords' = <<>>
    /\ currentUrl' = ""
    /\ body' = <<>>
    /\ fieldIdx' = 0
    /\ attempted' = <<>>
    /\ pending' = <<>>
    /\ visited' = <<>>
    /\ writeLog' = <<>>
    /\ UNCHANGED <<envVars, fs, now>>

\* A request that never fails the test.
RequestNeverFails(outcome) == FALSE

\* cy.request with failOnStatusCode: false fails the test only when no
\* response arrives; a response with an error status is passed on.
RequestFails(outcome) == outcome = "unreachable"

LoginOutcomes == {"ok", "rejected", "unreachable"}

\* beforeEach: cy.session('user-login', ...) running loginByGoogleApi.
BeforeEach ==
    /\ pc = "session"
    /\ \E outcome \in LoginOutcomes :
        /\ loginOutcome' = outcome
        /\ IF RequestFails(outcome) THEN Fail("session")
           ELSE pc' = "fixture" /\ failure' = failure
    /\ UNCHANGED <<envVars, fs, now, runNo, prevLog, companies, idx, verifyRecords,
                   currentUrl, body, fieldIdx, attempted, pending, visited, writeLog>>

\* A fixture load that never fails.
FixtureAlwaysLoads(store) == TRUE

\* cy.fixture('config.json') fails the test when the file is absent or is
\* not JSON.
FixtureLoads(store) == store.exists /\ store.parses

\* cy.fixture('config.json').then(config => ...) up to cy.wrap(companies).
LoadFixture ==
    /\ pc = "fixture"
    /\ LET store == stores[FixturePath]
       IN  IF ~FixtureLoads(store)
           THEN Fail("fixture") /\ companies' = companies
           ELSE IF ~store.hasCompanies
           THEN Fail("companies") /\ companies' = companies
           ELSE /\ companies' = store.companies
                /\ pc' = "each"
                /\ failure' = failure
    /\ UNCHANGED <<envVars, fs, now, runNo, prevLog, loginOutcome, idx, verifyRecords,
                   currentUrl, body, fieldIdx, attempted, pending, visited, writeLog>>

\* An iteration that steps over every other element.
NextIndexSkips(i) == i + 2

\* The element each() takes after the one at index i.
NextIndex(i) == i + 1

\* cy.wrap(companies).each: the callback for the next company, up to the
\* cy.visit it queues; after the last company, the summary.
Each ==
    /\ pc = "each"
    /\ IF NextIndex(idx) > Len(companies)
       THEN /\ pc' = "done"
            /\ UNCHANGED <<idx, verifyRecords, now, attempted>>
       ELSE /\ idx' = NextIndex(idx)
            /\ verifyRecords' = InitRecord(companies[idx'], now)
            /\ now' = now + 1
            /\ attempted' = <<>>
            /\ pc' = "visit"
    /\ UNCHANGED <<envVars, fs, runNo, prevLog, failure, loginOutcome, companies,
                   currentUrl, body, fieldIdx, pending, visited, writeLog>>

\* cy.visit rejects a url that is not a string.
VisitRejects(company) == company.frontend_url = Undefined

\* cy.visit(company.frontend_url)
Visit ==
    /\ pc = "visit"
    /\ LET company == companies[idx]
       IN  IF VisitRejects(company)
           THEN Fail("visit") /\ UNCHANGED <<visited, currentUrl, body>>
           ELSE LET answer == site[company.frontend_url]
                IN  /\ visited' = Append(visited, company.frontend_url)
                    /\ IF answer.status = "error"
                       THEN Fail("visit") /\ UNCHANGED <<currentUrl, body>>
                       ELSE /\ currentUrl' = answer.finalUrl
                            /\ body' = answer.dom
                            /\ pc' = "wait"
                            /\ failure' = failure
    /\ UNCHANGED <<envVars, fs, now, runNo, prevLog, loginOutcome, companies, idx,
                   verifyRecords, fieldIdx, attempted, pending, writeLog>>

\* cy.wait(3000)
Wait ==
    /\ pc = "wait"
    /\ pc' = "urlcheck"
    /\ UNCHANGED <<envVars, fs, now, runNo, prevLog, runVars>>

\* The assertion left out: any address passes.
UrlAssertionAlwaysHolds(u) == TRUE

\* The assertion of cy.url().should('include', 'company-detail').
UrlAssertionHolds(u) == IncludesCompanyDetail(u)

\* cy.url().should('include', 'company-detail'), then the start of
\* cy.extractCompanyFields.
UrlCheck ==
    /\ pc = "urlcheck"
    /\ IF UrlAssertionHolds(currentUrl)
       THEN pc' = "extract" /\ fieldIdx' = 1 /\ failure' = failure
       ELSE Fail("urlassert") /\ fieldIdx' = fieldIdx
    /\ UNCHANGED <<envVars, fs, now, runNo, prevLog, loginOutcome, companies, idx,
                   verifyRecords, currentUrl, body, attempted, pending, visited,
                   writeLog>>

\* A forEach that ends after its first element.
LastFieldIsFirst(i) == i >= 1

\* The forEach over fields has queued its last callback at index i.
LastField(i) == i = Len(fields)

\* One cy.get('body').then(...) queued by extractCompanyFields.
ExtractField ==
    /\ pc = "extract"
    /\ verifyRecords' = FieldStep(verifyRecords, body, fieldIdx)
    /\ attempted' = Append(attempted, fields[fieldIdx].key)
    /\ IF LastField(fieldIdx)
       THEN pc' = "save" /\ fieldIdx' = fieldIdx
       ELSE pc' = pc /\ fieldIdx' = fieldIdx + 1
    /\ UNCHANGED <<envVars, fs, now, runNo, prevLog, failure, loginOutcome,
                   companies, idx, currentUrl, body, pending, visited, writeLog>>

\* The cy.then of the save step: the summary is added to the record and
\* its text is handed to cy.writeFile.
Save ==
    /\ pc = "save"
    /\ verifyRecords' = WithSummary(verifyRecords)
    /\ pending' = [filename |-> Filename(companies[idx]),
                   text |-> Stringify(verifyRecords')]
    /\ pc' = "write"
    /\ UNCHANGED <<envVars, fs, now, runNo, prevLog, failure, loginOutcome,
                   companies, idx, currentUrl, body, fieldIdx, attempted, visited,
                   writeLog>>

\* cy.writeFile(filename, text): creates the file or replaces its text.
WriteFile ==
    /\ pc = "write"
    /\ fs' = (pending.filename :> pending.text) @@ fs
    /\ writeLog' = Append(writeLog, [index |-> idx, filename |-> pending.filename,
                                     text |-> pending.text])
    /\ pc' = "each"
    /\ UNCHANGED <<envVars, now, runNo, prevLog, failure, loginOutcome, companies,
                   idx, verifyRecords, currentUrl, body, fieldIdx, attempted,
                   pending, visited>>

(* ----------------------- the configuration patch ----------------------- *)

\* The task updateConfigWithMemoPath({ companyName }); tasks are called
\* from specs, which Cypress runs one at a time.
UpdateConfigWithMemoPath ==
    /\ NoTestRunning
    /\ patches + moves < MaxPatches
    /\ \E companyName \in PatchNames :
        LET done == [i \in 1..Len(configPaths) |->
                        PatchLocation(stores[configPaths[i]], configPaths[i],
                                      companyName)]
            results == Flatten([i \in 1..Len(configPaths) |-> done[i].pushed])
        IN  /\ stores' = [p \in DOMAIN stores |->
                            LET i == CHOOSE j \in 1..Len(configPaths) :
                                        configPaths[j] = p
                            IN  done[i].store]
            /\ report' = PatchReport(results, companyName)
    /\ patches' = patches + 1
    /\ UNCHANGED <<site, fs, now, runNo, pc, prevLog, runVars, moveVars>>

\* The task moveDownloadedFile({ companyName, targetFolder }).
MoveDownloadedFile ==
    /\ NoTestRunning
    /\ patches + moves < MaxPatches
    /\ \E companyName \in PatchNames, listing \in Listings(downloads.files) :
        LET done == MoveDownloaded(downloads, targetDir, listing, companyName)
        IN  /\ downloads' = done.folder
            /\ targetDir' = done.target
            /\ moveResult' = done.result
    /\ moves' = moves + 1
    /\ UNCHANGED <<stores, site, report, patches, fs, now, runNo, pc, prevLog,
                   runVars>>

Next ==
    \/ StartRun
    \/ BeforeEach
    \/ LoadFixture
    \/ Each
    \/ Visit
    \/ Wait
    \/ UrlCheck
    \/ ExtractField
    \/ Save
    \/ WriteFile
    \/ UpdateConfigWithMemoPath
    \/ MoveDownloadedFile

Spec == Init /\ [][Next]_vars

(* ------------------------------ properties ----------------------------- *)

Range(seq) == {seq[i] : i \in 1..Len(seq)}

Meta(text) == text[MetadataKey]

\* The number of keys of a written record that do not start with '_' and
\* whose trimmed value is not empty.
NonEmptyFields(text) ==
    Cardinality({k \in DOMAIN text \ {MetadataKey} : Trim(text[k]) # <<>>})

\* This entity's visit was answered with a page whose address does not
\* include 'company-detail'.
LandedElsewhere(k) ==
    /\ site[visited[k]].status = "ok"
    /\ ~IncludesCompanyDetail(site[visited[k]].finalUrl)

\* C1: every record handed to cy.writeFile, and every file on disk, has
\* fields_extracted equal to the number of keys not starting with '_' whose
\* trimmed value is non-empty, and extraction_success true exactly when
\* fields_extracted > 0.
C1_SummaryMatchesRecord ==
    \A text \in {w.text : w \in Range(writeLog)} \cup {fs[f] : f \in DOMAIN fs} :
        /\ Meta(text).fields_extracted = NonEmptyFields(text)
        /\ Meta(text).extraction_success <=> (Meta(text).fields_extracted > 0)

\* C1 witness: in one run a record with 15 of 15 fields and a record with
\* 10 of 15 fields were written, both successful, and the five omitted keys
\* of the latter are empty.
C1_Witness ==
    /\ Len(writeLog) = 2
    /\ Meta(writeLog[1].text).fields_extracted = 15
    /\ Meta(writeLog[2].text).fields_extracted = 10
    /\ Meta(writeLog[2].text).extraction_success
    /\ \A i \in OmittedFields : writeLog[2].text[fields[i].key] = <<>>

\* The elements of block c that match the structural selector.
StructuralIn(dom, c) ==
    {i \in 1..Len(dom[c].els) : StructuralSelector(dom[c].els[i])}

\* The elements of block c that match the broad selector and neither of
\* the two more specific ones.
BroadOnlyIn(dom, c) ==
    {i \in 1..Len(dom[c].els) :
        /\ BroadSelector(dom[c].els[i])
        /\ ~StructuralSelector(dom[c].els[i])
        /\ ~SpanSelector(dom[c].els[i])}

\* C2: once a field is resolved, if its label sits in one rounded container
\* that holds both an element matching the structural selector and an
\* element matching only the broad selector, the value stored is the text
\* of the (first) structural element, whichever of the two comes first.
C2_StructuralMatchWins ==
    pc \in {"extract", "save"} =>
        \A i \in FieldIdx :
            LET cs == ClosestRounded(body, LabelPositions(body, fields[i].label))
            IN  (fields[i].key \in Range(attempted) /\ Cardinality(cs) = 1) =>
                    \A c \in cs :
                        (StructuralIn(body, c) # {} /\ BroadOnlyIn(body, c) # {}) =>
                            LET j == CHOOSE j \in StructuralIn(body, c) :
                                        \A m \in StructuralIn(body, c) : j <= m
                            IN  verifyRecords[fields[i].key] = Trim(body[c].els[j].text)

\* C3 as stated: when a run has ended and one of its entities landed on a
\* page whose address lacks 'company-detail', that entity has a record with
\* fields_extracted = 0 and extraction_success = false, and every entity of
\* the configured list has a record.
C3_WrongPageRecordedAndRunContinues ==
    (NoTestRunning /\ runNo > 0) =>
        \A k \in 1..Len(visited) :
            LandedElsewhere(k) =>
                /\ Len(writeLog) = Len(companies)
                /\ Meta(writeLog[k].text).fields_extracted = 0
                /\ ~Meta(writeLog[k].text).extraction_success

\* C3 amended: when an entity lands on a page whose address lacks
\* 'company-detail', the url assertion fails the run there: no record is
\* written for that entity or any later one, no later entity is visited,
\* and the records of the entities before it stay written.
C3_WrongPageAbortsRun ==
    \A k \in 1..Len(visited) :
        LandedElsewhere(k) =>
            /\ Len(visited) = k
            /\ idx = k
            /\ Len(writeLog) = k - 1
            /\ \A j \in 1..(k - 1) : fs[writeLog[j].filename] = writeLog[j].text
            /\ pc \in {"wait", "urlcheck", "failed"}
            /\ pc = "failed" => failure = "urlassert"

\* C3 witness: the second entity was redirected after the first was
\* written, and the run has failed on the url assertion.
C3_Witness ==
    /\ pc = "failed"
    /\ failure = "urlassert"
    /\ idx = 2
    /\ Len(companies) = 2
    /\ Len(writeLog) = 1

\* C4: a completed run has handed exactly one record to cy.writeFile per
\* configured entity, under that entity's file name, and the top-level keys
\* of each record are the 15 schema keys and _extraction_metadata.
C4_OneRecordPerEntity ==
    pc = "done" =>
        /\ Len(writeLog) = Len(companies)
        /\ \A k \in 1..Len(writeLog) :
            /\ writeLog[k].index = k
            /\ writeLog[k].filename = Filename(companies[k])
            /\ writeLog[k].filename \in DOMAIN fs
            /\ DOMAIN writeLog[k].text = SchemaKeys \cup {MetadataKey}

\* C4 witness: a completed run over two entities, one with every field
\* found and one with fields missing.
C4_Witness ==
    /\ pc = "done"
    /\ Len(companies) = 2
    /\ Meta(writeLog[1].text).fields_extracted
          # Meta(writeLog[2].text).fields_extracted

\* The page without the label elements of field i.
WithoutLabel(dom, i) ==
    [c \in 1..Len(dom) |->
        [dom[c] EXCEPT !.els =
            SelectSeq(@, LAMBDA e : ~MatchesLabel(e, fields[i].label))]]

\* What a key holds after its field was resolved against dom.
Resolved(dom, i) ==
    LET r == ResolveField(dom, fields[i].label)
    IN  IF r.status = "found" THEN r.value ELSE <<>>

\* C5: the fields are attempted in schema order whatever the outcomes; a
\* key not yet attempted, or whose label or value element is missing, holds
\* the empty string; and once all are attempted, every key holds what its
\* own field resolves to, and removing the label of any one field from the
\* page makes that field NotFound and leaves every other key with the value
\* it has (a field without label on the page is NotFound as the page is).
C5_FieldsIndependentAndExhaustive ==
    /\ pc = "extract" =>
        /\ attempted = [i \in 1..(fieldIdx - 1) |-> fields[i].key]
        /\ \A i \in fieldIdx..Len(fields) : verifyRecords[fields[i].key] = <<>>
    /\ pc = "save" =>
        /\ attempted = [i \in FieldIdx |-> fields[i].key]
        /\ \A i \in FieldIdx :
            ResolveField(body, fields[i].label).status # "found"
                => verifyRecords[fields[i].key] = <<>>
        /\ \A g \in FieldIdx : verifyRecords[fields[g].key] = Resolved(body, g)
        /\ \A f \in {h \in FieldIdx : LabelPositions(body, fields[h].label) # {}} :
            LET without == WithoutLabel(body, f)
            IN  /\ ResolveField(without, fields[f].label).status = "nolabel"
                /\ \A g \in FieldIdx \ {f} :
                    verifyRecords[fields[g].key] = Resolved(without, g)

\* C5 witness: all 15 fields attempted on a page that renders ten of them:
\* ten keys hold a value and the five omitted keys are empty.
C5_Witness ==
    /\ pc = "save"
    /\ Len(attempted) = 15
    /\ body = TenPage
    /\ \A i \in FieldIdx :
        (verifyRecords[fields[i].key] = <<>>) <=> (i \in OmittedFields)

\* C6: the files written in a run are, in order, those of the first
\* entities of config.companies: the k-th write is the record of the k-th
\* configured entity.
C6_WritesInConfigOrder ==
    /\ Len(writeLog) <= Len(companies)
    /\ \A k \in 1..Len(writeLog) :
        /\ writeLog[k].index = k
        /\ writeLog[k].filename = Filename(companies[k])
        /\ Meta(writeLog[k].text).frontend_url = companies[k].frontend_url

\* C6 witness: two entities configured in an order that is not the order of
\* their ids, both written.
C6_Witness ==
    /\ Len(writeLog) = 2
    /\ companies = <<CompanyB, CompanyA>>
    /\ Meta(writeLog[1].text).company_id = "c2"
    /\ Meta(writeLog[2].text).company_id = "c1"

\* The store can be patched for companyName: the file exists, parses, lists
\* the company and can be written.
Patchable(store, companyName) ==
    /\ store.exists /\ store.parses /\ store.hasCompanies /\ store.writable
    /\ \E i \in 1..Len(store.companies) : store.companies[i].name = companyName

\* The store records the memo path of companyName.
HoldsMemo(store, companyName) ==
    \E i \in 1..Len(store.companies) :
        /\ store.companies[i].name = companyName
        /\ store.companies[i].ai_generated_memo = MemoPath(companyName)

\* What a call of the task with companyName must leave behind.
PatchOutcomeOk(before, after, rep, companyName) ==
    /\ Len(rep.results) = Len(configPaths)
    /\ \A i \in 1..Len(rep.results) :
        /\ rep.results[i].path = configPaths[i]
        /\ ~rep.results[i].success => rep.results[i].error # Undefined
        /\ rep.results[i].success <=> Patchable(before[configPaths[i]], companyName)
        /\ rep.results[i].success => HoldsMemo(after[configPaths[i]], companyName)
        /\ ~rep.results[i].success => after[configPaths[i]] = before[configPaths[i]]
    /\ rep.totalFiles = Len(configPaths)
    /\ rep.successCount =
          Cardinality({i \in 1..Len(rep.results) : rep.results[i].success})
    /\ \A i, j \in 1..Len(configPaths) :
        (Patchable(before[configPaths[i]], companyName)
            /\ ~before[configPaths[j]].exists) =>
                /\ rep.successCount = 1
                /\ rep.totalFiles = 2
                /\ ~rep.results[j].success
                /\ rep.results[j].error = "File does not exist: " \o configPaths[j]
                /\ HoldsMemo(after[configPaths[i]], companyName)

\* C7: every call of updateConfigWithMemoPath returns a report with exactly
\* one entry per configuration location, in the order of the locations;
\* totalFiles is the number of locations and successCount the number of
\* entries with success = true; a failed entry carries an error message and
\* leaves its store as it was; and with one store patchable and the other
\* missing the report says 1 of 2, the missing store's entry says so, and
\* the patchable store holds the memo path afterwards.
C7_PatchReportsEveryLocation ==
    [][patches' # patches =>
        \E companyName \in PatchNames :
            /\ report'.summary[6] = companyName
            /\ PatchOutcomeOk(stores, stores', report', companyName)]_vars

\* C7 witness: the task ran with the fixture store patchable and the root
\* store missing: 1 of 2 updated.
C7_Witness ==
    /\ patches > 0
    /\ ~stores[RootPath].exists
    /\ report.successCount = 1
    /\ report.totalFiles = 2
    /\ report.results[1].success
    /\ ~report.results[2].success
    /\ HoldsMemo(stores[FixturePath], "Algorithmics")

\* C8 as stated: if the login request of the session setup was rejected
\* (invalid credentials, error status) or got no response, no entity page
\* is visited, no field is resolved and no record is written in that run.
C8_FailedLoginAbortsBeforeEntities ==
    loginOutcome \in {"rejected", "unreachable"} =>
        /\ visited = <<>>
        /\ attempted = <<>>
        /\ writeLog = <<>>

\* C8 amended: if the login request gets no response, the run fails in the
\* session setup: the configuration is not loaded, no entity page is
\* visited, no field is resolved and no record is written.  A response
\* with an error status does not fail the run in the session setup.
C8_UnreachableLoginAbortsRun ==
    /\ loginOutcome = "unreachable" =>
        /\ pc = "failed"
        /\ failure = "session"
        /\ companies = <<>>
        /\ idx = 0
        /\ visited = <<>>
        /\ attempted = <<>>
        /\ writeLog = <<>>
    /\ loginOutcome = "rejected" => failure # "session"

\* C8 witness: a second run whose login request got no response, after a
\* first run that wrote a record.
C8_Witness ==
    /\ runNo = 2
    /\ loginOutcome = "unreachable"
    /\ pc = "failed"
    /\ Len(prevLog) > 0

LacksRequired(company) ==
    \/ company.id = Undefined
    \/ company.name = Undefined
    \/ company.frontend_url = Undefined

\* C9 as stated: when the configuration is unreadable or malformed, or any
\* entity of the loaded list lacks id, name or frontend_url, the run fails
\* without visiting or writing anything.
C9_InvalidConfigFailsBeforeEntities ==
    /\ (pc \notin {"idle", "session", "fixture"} /\ failure # "session"
          /\ ~(stores[FixturePath].exists /\ stores[FixturePath].parses
                 /\ stores[FixturePath].hasCompanies)) =>
            (pc = "failed" /\ visited = <<>> /\ writeLog = <<>>)
    /\ (\E k \in 1..Len(companies) : LacksRequired(companies[k])) =>
            (pc = "failed" /\ visited = <<>> /\ writeLog = <<>>)

\* C9 amended: the run fails before any entity is processed when the
\* configuration file is missing, is not JSON or has no companies list.
\* Entities are not validated: one without frontend_url fails the run when
\* it is reached, after the entities before it were written, and is neither
\* visited nor written; one without id or name is processed like any other,
\* its record leaving out company_id, or its file name being built from
\* 'undefined'.
C9_OnlyUnloadableConfigFailsEarly ==
    /\ (pc \notin {"idle", "session", "fixture"} /\ failure # "session"
          /\ ~(stores[FixturePath].exists /\ stores[FixturePath].parses
                 /\ stores[FixturePath].hasCompanies)) =>
            /\ pc = "failed"
            /\ failure \in {"fixture", "companies"}
            /\ companies = <<>>
            /\ visited = <<>>
            /\ writeLog = <<>>
    /\ \A u \in Range(visited) : u # Undefined
    /\ \A k \in 1..Len(companies) :
        companies[k].frontend_url = Undefined =>
            /\ idx <= k
            /\ Len(visited) < k
            /\ Len(writeLog) < k
            /\ (idx = k /\ pc \notin {"visit"}) =>
                    (pc = "failed" /\ failure = "visit" /\ Len(writeLog) = k - 1)
    /\ \A k \in 1..Len(writeLog) :
        /\ companies[k].id = Undefined
               => "company_id" \notin DOMAIN Meta(writeLog[k].text)
        /\ companies[k].name = Undefined
               => writeLog[k].filename = "data/extracted/undefined_frontend_data.json"
    /\ pc = "done" => Len(writeLog) = Len(companies)

\* C9 witness: a run completed over a list holding an entity without name,
\* whose record was written.
C9_Witness ==
    /\ pc = "done"
    /\ \E k \in 1..Len(writeLog) : companies[k].name = Undefined

\* Two record texts agree in every key and every metadata field other than
\* extracted_at.
SameButExtractedAt(a, b) ==
    /\ DOMAIN a = DOMAIN b
    /\ \A k \in DOMAIN a \ {MetadataKey} : a[k] = b[k]
    /\ DOMAIN Meta(a) = DOMAIN Meta(b)
    /\ \A m \in DOMAIN Meta(a) \ {"extracted_at"} : Meta(a)[m] = Meta(b)[m]

\* C10: a record written by a run for the k-th entity has the file name of,
\* and agrees in everything but extracted_at with, the record the previous
\* run wrote for the k-th entity; the file on disk under that name holds
\* the text of a write of the current run, and no run adds a file under a
\* name that is not the file name of a configured entity.
C10_RerunWritesSameRecord ==
    /\ \A k \in 1..Len(writeLog) :
        /\ k <= Len(prevLog) =>
            /\ writeLog[k].filename = prevLog[k].filename
            /\ SameButExtractedAt(writeLog[k].text, prevLog[k].text)
        /\ \E j \in k..Len(writeLog) :
            /\ writeLog[j].filename = writeLog[k].filename
            /\ fs[writeLog[k].filename] = writeLog[j].text
    /\ DOMAIN fs \subseteq
          {Filename(stores[FixturePath].companies[k]) :
              k \in 1..Len(stores[FixturePath].companies)}

\* C10 witness: the second run has rewritten the record of an entity at a
\* later time than the first run wrote it.
C10_Witness ==
    /\ runNo = 2
    /\ Len(writeLog) >= 1
    /\ Len(prevLog) >= 1
    /\ Meta(writeLog[1].text).extracted_at # Meta(prevLog[1].text).extracted_at
    /\ Meta(writeLog[1].text).fields_extracted > 0

\* The PDFs of a downloads folder.
PdfsOf(folder) == {f \in folder.files : IsPdfName(f.name)}

\* What a call of moveDownloadedFile with companyName must leave behind.
MoveOutcomeOk(before, after, targetBefore, targetAfter, res, companyName) ==
    /\ res.success => (res.filename # Undefined /\ res.error = Undefined)
    /\ ~res.success => (res.error # Undefined /\ res.filename = Undefined)
    /\ PdfsOf(before) # {} =>
        /\ res.success
        /\ res.filename = MemoFileName(companyName)
        /\ \E f \in PdfsOf(before) :
            /\ \A g \in PdfsOf(before) : g.mtime <= f.mtime
            /\ after.files = before.files \ {f}
            /\ [name |-> res.filename, mtime |-> f.mtime, content |-> f.content]
                  \in targetAfter.files
            /\ \A t \in targetAfter.files :
                t.name # res.filename => t \in targetBefore.files
            /\ \A t \in targetBefore.files :
                t.name # res.filename => t \in targetAfter.files
            /\ Cardinality({t \in targetAfter.files : t.name = res.filename}) = 1
    /\ PdfsOf(before) = {} =>
        /\ ~res.success
        /\ after = before
        /\ targetAfter.files = targetBefore.files

\* C11: every call of moveDownloadedFile returns success with a file name
\* or failure with an error; when the downloads folder holds a PDF, one PDF
\* of greatest modification time, and nothing else, leaves the folder and
\* is the file <companyName>_Investment_Memo.pdf of the target folder
\* afterwards; when it holds none, the call fails and no file of either
\* folder changes.
C11_MovesMostRecentPdf ==
    [][moves' # moves =>
        \E companyName \in PatchNames :
            MoveOutcomeOk(downloads, downloads', targetDir, targetDir',
                          moveResult', companyName)]_vars

\* C11 witness: a call moved one of two PDFs of different age and left
\* the older one and a text file in the downloads folder, replacing the
\* memo the target folder held.
C11_Witness ==
    /\ moves = 1
    /\ moveResult.success
    /\ downloads.files = {File(PdfA, 1), File(TextC, 2)}
    /\ targetDir.files =
          {[name |-> MemoFileName("Algorithmics"), mtime |-> 2, content |-> PdfB]}

\* The blocks of dom holding a label element of field i, in a set.
LabelBlocks(dom, i) == {p[1] : p \in LabelPositions(dom, fields[i].label)}

\* The block of the first label element of field i.
FirstLabelBlock(dom, i) ==
    CHOOSE c \in LabelBlocks(dom, i) : \A d \in LabelBlocks(dom, i) : c <= d

\* Block c is a rounded container holding an element the value selector
\* list matches.
HoldsValue(dom, c) ==
    dom[c].rounded /\ \E j \in 1..Len(dom[c].els) : ValueSelector(dom[c].els[j])

\* The trimmed text of the first element of block c the value selector
\* list matches.
FirstValueText(dom, c) ==
    LET js == {j \in 1..Len(dom[c].els) : ValueSelector(dom[c].els[j])}
        j0 == CHOOSE j \in js : \A m \in js : j <= m
    IN  Trim(dom[c].els[j0].text)

\* Field i has several label elements on the page, in more than one block.
SeveralLabels(dom, i) == Cardinality(LabelBlocks(dom, i)) > 1

\* C12 as stated: once a field with several matching labels is resolved,
\* its key holds the first value of the rounded container of the first
\* label, and the empty string when that container is missing or holds no
\* value element, whatever the containers of the later labels hold.
C12_OnlyFirstLabelUsed ==
    pc \in {"extract", "save"} =>
        \A i \in FieldIdx :
            (fields[i].key \in Range(attempted) /\ SeveralLabels(body, i)) =>
                verifyRecords[fields[i].key] =
                    IF HoldsValue(body, FirstLabelBlock(body, i))
                    THEN FirstValueText(body, FirstLabelBlock(body, i))
                    ELSE <<>>

\* C12 amended: once a field with several matching labels is resolved, the
\* containers of all its labels were searched: its key holds the first
\* value of the first rounded container of any of its labels that holds a
\* value element (the container of the first label when that one holds
\* one), and the empty string only when no such container exists.
C12_EveryLabelContainerSearched ==
    pc \in {"extract", "save"} =>
        \A i \in FieldIdx :
            (fields[i].key \in Range(attempted) /\ SeveralLabels(body, i)) =>
                LET holding == {c \in LabelBlocks(body, i) : HoldsValue(body, c)}
                IN  /\ holding = {} => verifyRecords[fields[i].key] = <<>>
                    /\ holding # {} =>
                        verifyRecords[fields[i].key] =
                            FirstValueText(body,
                                CHOOSE c \in holding : \A d \in holding : c <= d)

\* C12 witness: Location is resolved on a page where its first label sits
\* in a card without value element and a later label in a card with one:
\* the key holds the value of the later card.
C12_Witness ==
    /\ pc \in {"extract", "save"}
    /\ "location" \in Range(attempted)
    /\ SeveralLabels(body, 3)
    /\ body[FirstLabelBlock(body, 3)].rounded
    /\ ~HoldsValue(body, FirstLabelBlock(body, 3))
    /\ verifyRecords["location"] = <<"a", " ", "b">>

\* The summary of the save step is part of the record.
HasSummary(rec) ==
    {"fields_extracted", "extraction_success"} \subseteq DOMAIN Meta(rec)

\* C13: within a run the entities are processed one after the other: when
\* the navigation of entity idx is about to start, exactly the idx - 1
\* entities before it were navigated to and written; while entity idx is
\* being navigated to, waited for and resolved, nothing of a later entity
\* has happened and its record has no summary; the summary is computed only
\* once all 15 fields were attempted; the text written is the record with
\* that summary; and after the write the record stays as written until the
\* next entity's record is created.
C13_EntitiesProcessedOneByOne ==
    /\ pc = "visit" =>
        /\ Len(visited) = idx - 1
        /\ Len(writeLog) = idx - 1
        /\ attempted = <<>>
        /\ ~HasSummary(verifyRecords)
    /\ pc \in {"wait", "urlcheck"} =>
        /\ Len(visited) = idx
        /\ Len(writeLog) = idx - 1
        /\ attempted = <<>>
        /\ ~HasSummary(verifyRecords)
    /\ pc = "extract" =>
        /\ Len(visited) = idx
        /\ Len(writeLog) = idx - 1
        /\ Len(attempted) = fieldIdx - 1
        /\ ~HasSummary(verifyRecords)
    /\ pc = "save" =>
        /\ Len(visited) = idx
        /\ Len(writeLog) = idx - 1
        /\ Len(attempted) = Len(fields)
        /\ ~HasSummary(verifyRecords)
    /\ pc = "write" =>
        /\ Len(visited) = idx
        /\ Len(writeLog) = idx - 1
        /\ Len(attempted) = Len(fields)
        /\ HasSummary(verifyRecords)
        /\ pending.text = Stringify(verifyRecords)
    /\ (pc \in {"each", "done"} /\ idx > 0) =>
        /\ Len(visited) = idx
        /\ Len(writeLog) = idx
        /\ writeLog[idx].text = Stringify(verifyRecords)
        /\ fs[writeLog[idx].filename] = writeLog[idx].text
    /\ \A k \in 1..Len(writeLog) :
        /\ HasSummary(writeLog[k].text)
        /\ Meta(writeLog[k].text).fields_extracted = NonEmptyFields(writeLog[k].text)

\* C13 witness: the second entity is being resolved, the first is written
\* with its summary, and the record of the second has none yet.
C13_Witness ==
    /\ pc = "extract"
    /\ idx = 2
    /\ fieldIdx = 8
    /\ Len(writeLog) = 1
    /\ HasSummary(writeLog[1].text)
    /\ ~HasSummary(verifyRecords)

====
